---- MODULE Spec2Model ----
(***************************************************************************)
(* Model of libnativeloader's LibraryNamespaces                            *)
(* (src/libnativeloader/library_namespaces.cpp): the classification of an  *)
(* APK by its dex path, the one-time initialisation of the anonymous       *)
(* namespace, the creation and linking of a classloader namespace, and the *)
(* list that maps class loaders to their namespaces.                       *)
(*                                                                         *)
(* Strings.  A C++ string is a sequence of tokens; a token is a literal    *)
(* piece of text that the code never looks inside (a library name, a       *)
(* directory, the separator ":").  Concatenation is \o.  The two regular   *)
(* expressions of the source are evaluated on the token sequence: the      *)
(* tokens "/vendor/", "/product/" and "/system" are exactly the literals   *)
(* the expressions are built from, so a match of the expression is a       *)
(* match at a token position.                                              *)
(*                                                                         *)
(* A jstring is an optional string: <<>> is nullptr, <<s>> is the Java     *)
(* string with text s.                                                     *)
(*                                                                         *)
(* The linker primitives (android_init_anonymous_namespace, the native     *)
(* bridge, NativeLoaderNamespace::Create / Link / GetExportedNamespace,    *)
(* dlopen) live outside this file.  Each invocation is recorded in the log *)
(* of the call that makes it, and its outcome is an input of the call.     *)
(***************************************************************************)
EXTENDS Integers, Sequences, FiniteSets, TLC

\* Number of class loaders of the process.  Loader c has parent c - 1; loader 1
\* has no parent (GetParentClassLoader returns nullptr, modelled as 0).
NumLoaders == 3
\* Longest dex path, in tokens, that the classifier is applied to.
MaxDexLen == 3

Loaders == 1..NumLoaders
NoLoader == 0

VARIABLES
  initialized_,   \* LibraryNamespaces::initialized_
  namespaces_,    \* LibraryNamespaces::namespaces_: sequence of [loader, ns]
  libs,           \* the library lists of public_libraries.h, fixed per process
  exported,       \* the names GetExportedNamespace finds in this process
  loaded,         \* the sonames dlopen has loaded (RTLD_NODELETE) into the process
  last,           \* the call in progress: its arguments, the primitives it invoked,
                  \* its outcome; "none" between calls
  anonymous_initialized,  \* android_init_anonymous_namespace has returned true in
                          \* this process
  g_namespaces_mutex,     \* the thread inside the caller's lock, 0 when it is free
  threads                 \* per thread: the position in Create and its locals

vars == <<initialized_, namespaces_, libs, exported, loaded, last,
          anonymous_initialized, g_namespaces_mutex, threads>>

------------------------------------------------------------------------------
(* Strings *)

Colon == ":"

\* a + ":" + b
Joined(a, b) == a \o <<Colon>> \o b

\* android::base::Split(s, ":"): the pieces between separators, empty pieces kept;
\* the empty string gives one empty piece.
RECURSIVE Split(_)
Split(s) ==
  IF \A i \in 1..Len(s) : s[i] # Colon
    THEN <<s>>
    ELSE LET k == CHOOSE i \in 1..Len(s) :
                    s[i] = Colon /\ \A j \in 1..(i - 1) : s[j] # Colon
         IN  <<SubSeq(s, 1, k - 1)>> \o Split(SubSeq(s, k + 1, Len(s)))

\* The non-empty entries of a colon-joined list, as a set.
Entries(s) == { Split(s)[i] : i \in 1..Len(Split(s)) } \ { <<>> }

NullString == <<>>
JString(s) == <<s>>
IsNull(j) == j = <<>>
Chars(j) == j[1]

------------------------------------------------------------------------------
(* Constants of the source *)

kVendorNamespaceName == "sphal"
kVndkNamespaceName == "vndk"
kRuntimeNamespaceName == "runtime"
kClassloaderNamespaceName == "classloader-namespace"
kVendorClassloaderNamespaceName == "vendor-classloader-namespace"
kWhitelistedDirectories == <<"/data", Colon, "/mnt/expand">>
kVendorLibPath == <<"/vendor/lib">>
kProductLibPath == <<"/product/lib", Colon, "/system/product/lib">>

\* std::regex_search(s, kVendorDexPathRegex), "(^|:)/vendor/"
MatchesVendorDexPath(s) ==
  \E i \in 1..Len(s) :
    /\ i = 1 \/ s[i - 1] = Colon
    /\ s[i] = "/vendor/"

\* std::regex_search(s, kProductDexPathRegex), "(^|:)(/system)?/product/"
MatchesProductDexPath(s) ==
  \E i \in 1..Len(s) :
    /\ i = 1 \/ s[i - 1] = Colon
    /\ \/ s[i] = "/product/"
       \/ s[i] = "/system" /\ i + 1 <= Len(s) /\ s[i + 1] = "/product/"

APK_ORIGIN_DEFAULT == "APK_ORIGIN_DEFAULT"
APK_ORIGIN_VENDOR == "APK_ORIGIN_VENDOR"
APK_ORIGIN_PRODUCT == "APK_ORIGIN_PRODUCT"
\* LOG_ALWAYS_FATAL_IF fired: the process aborts and no ApkOrigin is returned.
ORIGIN_FATAL == "LOG_ALWAYS_FATAL"

\* The classifier with the vendor/product check dropped: product overrides vendor.
GetApkOriginFromDexPath_NoFatal(dex_path) ==
  IF IsNull(dex_path) THEN APK_ORIGIN_DEFAULT
  ELSE IF MatchesProductDexPath(Chars(dex_path)) THEN APK_ORIGIN_PRODUCT
  ELSE IF MatchesVendorDexPath(Chars(dex_path)) THEN APK_ORIGIN_VENDOR
  ELSE APK_ORIGIN_DEFAULT

GetApkOriginFromDexPath(dex_path) ==
  LET origin0 == APK_ORIGIN_DEFAULT
      origin1 == IF ~IsNull(dex_path) /\ MatchesVendorDexPath(Chars(dex_path))
                   THEN APK_ORIGIN_VENDOR ELSE origin0
  IN  IF ~IsNull(dex_path) /\ MatchesProductDexPath(Chars(dex_path))
        THEN IF origin1 = APK_ORIGIN_VENDOR THEN ORIGIN_FATAL ELSE APK_ORIGIN_PRODUCT
        ELSE origin1

------------------------------------------------------------------------------
(* The call record *)

\* One invocation of a primitive that lives outside this file.
\*   op, target  which primitive, and the namespace it is aimed at
\*   present     FALSE when the target handle is nil
\*   libs        the library list handed over
\*   path        Create: library_path; the anonymous namespace: its search path
\*   name .. greylist   the remaining arguments of NativeLoaderNamespace::Create
\*   ok          what the primitive reported
Prim(op, target, present, liblist, path, ok) ==
  [op |-> op, target |-> target, present |-> present, libs |-> liblist,
   path |-> path, name |-> "", permitted |-> <<>>, parent |-> 0,
   shared |-> FALSE, greylist |-> FALSE, ok |-> ok]

NoArgs ==
  [class_loader |-> NoLoader, target_sdk_version |-> 0, is_shared |-> FALSE,
   dex_path |-> NullString, java_library_path |-> NullString,
   java_permitted_path |-> NullString]

\* result: "none" while no call is in progress; "ok"; "error" (nullptr returned with
\* *error_msg set); "fatal_origin", "fatal_duplicate", "fatal_preload" (abort).
\* origin: the ApkOrigin computed by the call, "" when it computes none.
\* ret: the NativeLoaderNamespace* returned (0: nullptr, or no pointer result).
Call(op, args, origin, result, ret, log, error_msg) ==
  [op |-> op, args |-> args, origin |-> origin, result |-> result, ret |-> ret,
   log |-> log, error_msg |-> error_msg]

Fatal == {"fatal_origin", "fatal_duplicate", "fatal_preload"}

\* No call is in progress and no LOG_ALWAYS_FATAL has aborted the process.  Calls
\* are taken one at a time: a call starts only after the previous one returned.
Idle == last.op = "none"

\* What the primitives of one call report.  fail names the primitive that reports
\* failure if the call reaches it (a call returns at the first failure, so later
\* outcomes are never observed); nb_path is NativeBridgeIsPathSupported(library_path),
\* nb_init is NativeBridgeInitialized().
FailPoints ==
  {"none", "android_init_anonymous_namespace", "NativeBridgeInitAnonymousNamespace",
   "Create", "platform", kRuntimeNamespaceName, kVndkNamespaceName, kVendorNamespaceName}

Oracles == [fail : FailPoints, nb_path : BOOLEAN, nb_init : BOOLEAN]

------------------------------------------------------------------------------
(* LibraryNamespaces::Initialize *)

\* The sonames Initialize hands to dlopen, in order.
PreloadNames == Split(libs.default)

\* Initialize that never looks at initialized_.
InitializeAttempts_NoGuard(fail_at) ==
  LET n == IF fail_at = 0 THEN Len(PreloadNames) ELSE fail_at
  IN  [i \in 1..n |-> Prim("dlopen", "default", TRUE, PreloadNames[i], <<>>, i # fail_at)]

\* The dlopen calls of one Initialize; fail_at is the index of the first soname
\* whose dlopen returns nullptr (0: none does).
InitializeAttempts(fail_at) ==
  IF initialized_ THEN <<>>
  ELSE LET n == IF fail_at = 0 THEN Len(PreloadNames) ELSE fail_at
       IN  [i \in 1..n |-> Prim("dlopen", "default", TRUE, PreloadNames[i], <<>>, i # fail_at)]

Initialize(fail_at) ==
  /\ Idle
  /\ LET log == InitializeAttempts(fail_at)
         died == \E i \in 1..Len(log) : ~log[i].ok
     IN  /\ last' = Call("Initialize", NoArgs, "", IF died THEN "fatal_preload" ELSE "ok", 0,
                         log, "")
         /\ loaded' = loaded \cup { log[i].libs : i \in { j \in 1..Len(log) : log[j].ok } }
  /\ UNCHANGED <<initialized_, namespaces_, libs, exported>>
  /\ UNCHANGED <<anonymous_initialized, g_namespaces_mutex, threads>>

------------------------------------------------------------------------------
(* LibraryNamespaces::InitPublicNamespace *)

\* The initialisation that reports success although the native bridge refused.
InitPublicNamespace_IgnoresBridge(library_path, o) ==
  LET anon == Prim("android_init_anonymous_namespace", "anonymous", TRUE, libs.default,
                   IF o.nb_path THEN NullString ELSE JString(library_path),
                   o.fail # "android_init_anonymous_namespace")
      bridge == Prim("NativeBridgeInitAnonymousNamespace", "anonymous", TRUE, libs.default,
                     IF o.nb_path THEN JString(library_path) ELSE NullString,
                     o.fail # "NativeBridgeInitAnonymousNamespace")
  IN  IF ~anon.ok
        THEN [ret |-> FALSE, initialized |-> FALSE, log |-> <<anon>>,
              error_msg |-> "dlerror"]
      ELSE IF o.nb_init
        THEN [ret |-> TRUE, initialized |-> bridge.ok, log |-> <<anon, bridge>>,
              error_msg |-> IF bridge.ok THEN "" ELSE "NativeBridgeGetError"]
      ELSE [ret |-> TRUE, initialized |-> TRUE, log |-> <<anon>>, error_msg |-> ""]

\* The initialisation that keeps initialized_ set when the native bridge refuses.
InitPublicNamespace_KeepsFlag(library_path, o) ==
  LET anon == Prim("android_init_anonymous_namespace", "anonymous", TRUE, libs.default,
                   IF o.nb_path THEN NullString ELSE JString(library_path),
                   o.fail # "android_init_anonymous_namespace")
      bridge == Prim("NativeBridgeInitAnonymousNamespace", "anonymous", TRUE, libs.default,
                     IF o.nb_path THEN JString(library_path) ELSE NullString,
                     o.fail # "NativeBridgeInitAnonymousNamespace")
  IN  IF ~anon.ok
        THEN [ret |-> FALSE, initialized |-> FALSE, log |-> <<anon>>,
              error_msg |-> "dlerror"]
      ELSE IF o.nb_init
        THEN [ret |-> bridge.ok, initialized |-> TRUE, log |-> <<anon, bridge>>,
              error_msg |-> IF bridge.ok THEN "" ELSE "NativeBridgeGetError"]
      ELSE [ret |-> TRUE, initialized |-> TRUE, log |-> <<anon>>, error_msg |-> ""]

InitPublicNamespace(library_path, o) ==
  LET anon == Prim("android_init_anonymous_namespace", "anonymous", TRUE, libs.default,
                   IF o.nb_path THEN NullString ELSE JString(library_path),
                   o.fail # "android_init_anonymous_namespace")
      bridge == Prim("NativeBridgeInitAnonymousNamespace", "anonymous", TRUE, libs.default,
                     IF o.nb_path THEN JString(library_path) ELSE NullString,
                     o.fail # "NativeBridgeInitAnonymousNamespace")
  IN  IF ~anon.ok
        THEN [ret |-> FALSE, initialized |-> FALSE, log |-> <<anon>>,
              error_msg |-> "dlerror"]
      ELSE IF o.nb_init
        THEN [ret |-> bridge.ok, initialized |-> bridge.ok, log |-> <<anon, bridge>>,
              error_msg |-> IF bridge.ok THEN "" ELSE "NativeBridgeGetError"]
      ELSE [ret |-> TRUE, initialized |-> TRUE, log |-> <<anon>>, error_msg |-> ""]

\* The log holds an android_init_anonymous_namespace that returned true.
AnonymousInitSucceeded(log) ==
  \E i \in 1..Len(log) : log[i].op = "android_init_anonymous_namespace" /\ log[i].ok

------------------------------------------------------------------------------
(* The list of namespaces *)

GetParentClassLoader(class_loader) == class_loader - 1

\* The lookup that takes the first element whatever its class loader.
FindNamespaceByClassLoader_AnyLoader(class_loader) ==
  IF namespaces_ # <<>> THEN 1 ELSE 0

\* A NativeLoaderNamespace* is the position of the element in namespaces_;
\* nullptr is 0.
FindNamespaceByClassLoader(class_loader) ==
  IF \E i \in 1..Len(namespaces_) : namespaces_[i].loader = class_loader
    THEN CHOOSE i \in 1..Len(namespaces_) :
           /\ namespaces_[i].loader = class_loader
           /\ \A j \in 1..(i - 1) : namespaces_[j].loader # class_loader
    ELSE 0

RECURSIVE WalkParents(_)
WalkParents(parent_class_loader) ==
  IF parent_class_loader = NoLoader THEN 0
  ELSE IF FindNamespaceByClassLoader(parent_class_loader) # 0
    THEN FindNamespaceByClassLoader(parent_class_loader)
  ELSE WalkParents(GetParentClassLoader(parent_class_loader))

\* The walk that starts at the class loader itself instead of its parent.
FindParentNamespaceByClassLoader_FromSelf(class_loader) ==
  WalkParents(class_loader)

FindParentNamespaceByClassLoader(class_loader) ==
  WalkParents(GetParentClassLoader(class_loader))

------------------------------------------------------------------------------
(* LibraryNamespaces::Create: the policy *)

\* The target SDK version above which a product APK is treated as unbundled.
kProductSdkThreshold == 29
\* Below this target SDK version the greylist is enabled.
kGreylistSdk == 24

\* Create's library_path before the policy: empty for a null java_library_path.
DeclaredLibraryPath(java_library_path) ==
  IF IsNull(java_library_path) THEN <<>> ELSE Chars(java_library_path)

\* Create's permitted_path before the policy.
DeclaredPermittedPath(java_permitted_path) ==
  IF ~IsNull(java_permitted_path) /\ Len(Chars(java_permitted_path)) > 0
    THEN Joined(kWhitelistedDirectories, Chars(java_permitted_path))
    ELSE kWhitelistedDirectories

\* The test with the shared flag forgotten.
UnbundledVendorOrProductApp_IgnoresShared(apk_origin, target_sdk_version, is_shared) ==
  \/ apk_origin = APK_ORIGIN_VENDOR
  \/ apk_origin = APK_ORIGIN_PRODUCT /\ target_sdk_version > kProductSdkThreshold

\* The test with the threshold off by one.
UnbundledVendorOrProductApp_OffByOne(apk_origin, target_sdk_version, is_shared) ==
  /\ \/ apk_origin = APK_ORIGIN_VENDOR
     \/ apk_origin = APK_ORIGIN_PRODUCT /\ target_sdk_version >= kProductSdkThreshold
  /\ ~is_shared

\* The test that sends vendor APKs through the SDK threshold as well.
UnbundledVendorOrProductApp_VendorBySdk(apk_origin, target_sdk_version, is_shared) ==
  /\ apk_origin \in {APK_ORIGIN_VENDOR, APK_ORIGIN_PRODUCT}
  /\ target_sdk_version > kProductSdkThreshold
  /\ ~is_shared

UnbundledVendorOrProductApp(apk_origin, target_sdk_version, is_shared) ==
  /\ \/ apk_origin = APK_ORIGIN_VENDOR
     \/ apk_origin = APK_ORIGIN_PRODUCT /\ target_sdk_version > kProductSdkThreshold
  /\ ~is_shared

OriginLibPath(apk_origin) ==
  CASE apk_origin = APK_ORIGIN_VENDOR -> kVendorLibPath
    [] apk_origin = APK_ORIGIN_PRODUCT -> kProductLibPath
    [] OTHER -> <<>>

\* The search path and the permitted path handed to NativeLoaderNamespace::Create.
PolicyLibraryPath(library_path, unbundled, apk_origin) ==
  IF unbundled THEN Joined(library_path, OriginLibPath(apk_origin)) ELSE library_path

PolicyPermittedPath(permitted_path, unbundled, apk_origin) ==
  IF unbundled THEN Joined(permitted_path, OriginLibPath(apk_origin)) ELSE permitted_path

\* The list that gives the extended public libraries to unbundled apps as well.
SystemExposedLibraries_ExtendedForAll(unbundled) ==
  LET base == IF unbundled THEN Joined(libs.default, libs.llndk) ELSE libs.default
  IN  IF libs.extended # <<>> THEN Joined(base, libs.extended) ELSE base

SystemExposedLibraries(unbundled) ==
  IF unbundled
    THEN Joined(libs.default, libs.llndk)
    ELSE IF libs.extended # <<>>
           THEN Joined(libs.default, libs.extended)
           ELSE libs.default

NamespaceName(unbundled) ==
  IF unbundled THEN kVendorClassloaderNamespaceName ELSE kClassloaderNamespaceName

------------------------------------------------------------------------------
(* LibraryNamespaces::Create: the namespace and its links *)

CreateStep(name, library_path, permitted_path, parent_ns, is_shared, greylist, o) ==
  [Prim("Create", "app", TRUE, <<>>, library_path, o.fail # "Create")
     EXCEPT !.name = name, !.permitted = permitted_path, !.parent = parent_ns,
            !.shared = is_shared, !.greylist = greylist]

Link(target, present, liblist, o) ==
  Prim("Link", target, present, liblist, <<>>, o.fail # target)

PlatformLink(system_exposed_libraries, o) ==
  <<Link("platform", TRUE, system_exposed_libraries, o)>>

\* The runtime link that treats a missing runtime namespace as a failed link.
RuntimeLink_AbsentFails(o) ==
  IF kRuntimeNamespaceName \in exported
    THEN <<Link(kRuntimeNamespaceName, TRUE, libs.runtime, o)>>
    ELSE <<[Link(kRuntimeNamespaceName, FALSE, libs.runtime, o) EXCEPT !.ok = FALSE]>>

RuntimeLink(o) ==
  IF kRuntimeNamespaceName \in exported
    THEN <<Link(kRuntimeNamespaceName, TRUE, libs.runtime, o)>>
    ELSE <<>>

\* The vndk link made for every app, unbundled or not.
VndkLink_ForEveryApp(unbundled, o) ==
  IF libs.vndksp # <<>> /\ kVndkNamespaceName \in exported
    THEN <<Link(kVndkNamespaceName, TRUE, libs.vndksp, o)>>
    ELSE <<>>

VndkLink(unbundled, o) ==
  IF unbundled /\ libs.vndksp # <<>> /\ kVndkNamespaceName \in exported
    THEN <<Link(kVndkNamespaceName, TRUE, libs.vndksp, o)>>
    ELSE <<>>

\* The vendor link that is skipped when no vendor namespace is configured.
VendorLink_SkipsNil(o) ==
  IF libs.vendor # <<>> /\ kVendorNamespaceName \in exported
    THEN <<Link(kVendorNamespaceName, TRUE, libs.vendor, o)>>
    ELSE <<>>

VendorLink(o) ==
  IF libs.vendor # <<>>
    THEN <<Link(kVendorNamespaceName, kVendorNamespaceName \in exported, libs.vendor, o)>>
    ELSE <<>>

\* The links with the runtime link made before the platform link.
LinkSteps_RuntimeFirst(unbundled, o) ==
  RuntimeLink(o) \o PlatformLink(SystemExposedLibraries(unbundled), o)
    \o VndkLink(unbundled, o) \o VendorLink(o)

\* The links Create makes when none fails, in order.
LinkSteps(unbundled, o) ==
  PlatformLink(SystemExposedLibraries(unbundled), o) \o RuntimeLink(o)
    \o VndkLink(unbundled, o) \o VendorLink(o)

\* The links made without looking at their results.
Taken_KeepsGoing(steps) == steps

\* The steps actually taken: up to and including the first that fails.
Taken(steps) ==
  IF \A i \in 1..Len(steps) : steps[i].ok
    THEN steps
    ELSE SubSeq(steps, 1, CHOOSE i \in 1..Len(steps) :
                            ~steps[i].ok /\ \A j \in 1..(i - 1) : steps[j].ok)

\* *error_msg after a failed link: dlerror() for the vendor link, GetError() otherwise.
LinkError(step) ==
  IF step.target = kVendorNamespaceName THEN "dlerror" ELSE "GetError"

\* The list that gets its new entry at the front.
Registered_AtFront(class_loader, app_ns, links_ok) ==
  IF links_ok
    THEN <<[loader |-> class_loader, ns |-> app_ns]>> \o namespaces_
    ELSE namespaces_

\* The list that gets the entry before the links are made.
Registered_BeforeLinks(class_loader, app_ns, links_ok) ==
  Append(namespaces_, [loader |-> class_loader, ns |-> app_ns])

\* namespaces_ after the links: the entry is pushed only when every link succeeded.
Registered(class_loader, app_ns, links_ok) ==
  IF links_ok
    THEN Append(namespaces_, [loader |-> class_loader, ns |-> app_ns])
    ELSE namespaces_

\* The duplicate check left out.
AlreadyRegistered_Unchecked(class_loader) == FALSE

\* found, the condition of the LOG_ALWAYS_FATAL_IF
AlreadyRegistered(class_loader) ==
  FindNamespaceByClassLoader(class_loader) # 0

------------------------------------------------------------------------------
(* LibraryNamespaces::Create *)

CreateArgs(class_loader, target_sdk_version, is_shared, dex_path, java_library_path, java_permitted_path) ==
  [class_loader |-> class_loader, target_sdk_version |-> target_sdk_version,
   is_shared |-> is_shared, dex_path |-> dex_path,
   java_library_path |-> java_library_path,
   java_permitted_path |-> java_permitted_path]

Create(class_loader, target_sdk_version, is_shared, dex_path, java_library_path, java_permitted_path, o) ==
  /\ Idle
  /\ LET args == CreateArgs(class_loader, target_sdk_version, is_shared, dex_path,
                            java_library_path, java_permitted_path)
         library_path == DeclaredLibraryPath(java_library_path)
         apk_origin == GetApkOriginFromDexPath(dex_path)
         permitted_path == DeclaredPermittedPath(java_permitted_path)
         \* the anonymous namespace
         runs_init == library_path # <<>> /\ ~initialized_
         init == InitPublicNamespace(library_path, o)
         init_log == IF runs_init THEN init.log ELSE <<>>
         initialized_after == IF runs_init THEN init.initialized ELSE initialized_
         \* the policy
         unbundled == UnbundledVendorOrProductApp(apk_origin, target_sdk_version, is_shared)
         \* the namespace
         parent_ns == FindParentNamespaceByClassLoader(class_loader)
         create == CreateStep(NamespaceName(unbundled),
                              PolicyLibraryPath(library_path, unbundled, apk_origin),
                              PolicyPermittedPath(permitted_path, unbundled, apk_origin),
                              parent_ns, is_shared, target_sdk_version < kGreylistSdk, o)
         app_ns == [name |-> create.name, parent |-> create.parent]
         links == Taken(LinkSteps(unbundled, o))
         links_ok == \A i \in 1..Len(links) : links[i].ok
     IN  IF apk_origin = ORIGIN_FATAL
           THEN /\ last' = Call("Create", args, apk_origin, "fatal_origin", 0, <<>>, "")
                /\ UNCHANGED <<initialized_, namespaces_>>
         ELSE IF runs_init /\ ~init.ret
           THEN /\ last' = Call("Create", args, apk_origin, "error", 0, init_log, init.error_msg)
                /\ initialized_' = initialized_after
                /\ UNCHANGED namespaces_
         ELSE IF AlreadyRegistered(class_loader)
           THEN /\ last' = Call("Create", args, apk_origin, "fatal_duplicate", 0, init_log, "")
                /\ initialized_' = initialized_after
                /\ UNCHANGED namespaces_
         ELSE IF ~create.ok
           THEN /\ last' = Call("Create", args, apk_origin, "error", 0, init_log \o <<create>>,
                                "GetError")
                /\ initialized_' = initialized_after
                /\ UNCHANGED namespaces_
         ELSE /\ last' = Call("Create", args, apk_origin, IF links_ok THEN "ok" ELSE "error",
                              IF links_ok THEN Len(namespaces_) + 1 ELSE 0,
                              init_log \o <<create>> \o links,
                              IF links_ok THEN "" ELSE LinkError(links[Len(links)]))
              /\ initialized_' = initialized_after
              /\ namespaces_' = Registered(class_loader, app_ns, links_ok)
  /\ anonymous_initialized' = (anonymous_initialized \/ AnonymousInitSucceeded(last'.log))
  /\ UNCHANGED <<libs, exported, loaded, g_namespaces_mutex, threads>>

------------------------------------------------------------------------------
(* The lookups *)

Find(class_loader) ==
  /\ Idle
  /\ last' = Call("FindNamespaceByClassLoader",
                  [NoArgs EXCEPT !.class_loader = class_loader], "", "ok",
                  FindNamespaceByClassLoader(class_loader), <<>>, "")
  /\ UNCHANGED <<initialized_, namespaces_, libs, exported, loaded>>
  /\ UNCHANGED <<anonymous_initialized, g_namespaces_mutex, threads>>

FindParent(class_loader) ==
  /\ Idle
  /\ last' = Call("FindParentNamespaceByClassLoader",
                  [NoArgs EXCEPT !.class_loader = class_loader], "", "ok",
                  FindParentNamespaceByClassLoader(class_loader), <<>>, "")
  /\ UNCHANGED <<initialized_, namespaces_, libs, exported, loaded>>
  /\ UNCHANGED <<anonymous_initialized, g_namespaces_mutex, threads>>

\* The call returns to its caller.  After a LOG_ALWAYS_FATAL nothing returns.
Return ==
  /\ last.op # "none"
  /\ last.result \notin Fatal
  /\ last' = Call("none", NoArgs, "", "none", 0, <<>>, "")
  /\ UNCHANGED <<initialized_, namespaces_, libs, exported, loaded>>
  /\ UNCHANGED <<anonymous_initialized, g_namespaces_mutex, threads>>

\* The classification made on its own: GetApkOriginFromDexPath applied to a dex path.
Classify(dex_path) ==
  /\ Idle
  /\ LET apk_origin == GetApkOriginFromDexPath(dex_path)
     IN  last' = Call("GetApkOriginFromDexPath", [NoArgs EXCEPT !.dex_path = dex_path],
                      apk_origin,
                      IF apk_origin = ORIGIN_FATAL THEN "fatal_origin" ELSE "ok",
                      0, <<>>, "")
  /\ UNCHANGED <<initialized_, namespaces_, libs, exported, loaded>>
  /\ UNCHANGED <<anonymous_initialized, g_namespaces_mutex, threads>>

------------------------------------------------------------------------------
(* The process environment *)

\* The library lists of a device: default and LLNDK lists share libc.so, as
\* public.libraries.txt and llndk.libraries.txt do.
DefaultPublicLibraries == <<"libandroid.so", Colon, "libc.so">>
LlndkLibraries == <<"libc.so", Colon, "libvndksupport.so">>
RuntimePublicLibraries == <<"libicuuc.so">>
ExtendedPublicLibraries == <<"libextended.so">>
VndkspLibraries == <<"libhidlbase.so">>
VendorPublicLibraries == <<"libvendorpublic.so">>

ExportedNames == {kRuntimeNamespaceName, kVndkNamespaceName, kVendorNamespaceName}

\* Every device configuration: each optional list present or empty.
LibraryConfigs ==
  [default : {DefaultPublicLibraries}, llndk : {LlndkLibraries},
   runtime : {RuntimePublicLibraries},
   extended : {<<>>, ExtendedPublicLibraries},
   vndksp : {<<>>, VndkspLibraries},
   vendor : {<<>>, VendorPublicLibraries}]

FullLibraries ==
  [default |-> DefaultPublicLibraries, llndk |-> LlndkLibraries,
   runtime |-> RuntimePublicLibraries, extended |-> ExtendedPublicLibraries,
   vndksp |-> VndkspLibraries, vendor |-> VendorPublicLibraries]

NoCall == Call("none", NoArgs, "", "none", 0, <<>>, "")

\* The local app_ns of Create before NativeLoaderNamespace::Create has returned.
NoNamespace == [name |-> "", parent |-> 0]

\* The threads that call into the loader.
Threads == {1, 2}
NoThread == 0

\* A thread outside Create.
NotCalling == [pc |-> "idle", class_loader |-> NoLoader, library_path |-> <<>>, app_ns |-> NoNamespace]

------------------------------------------------------------------------------
(* Spec: any sequence of calls in one process *)

AppLibraryPath == <<"/data/app/lib">>
AppPermittedPath == <<"/data/user/0">>
VendorDexPath == <<"/vendor/", "app.apk">>
ProductDexPath == <<"/product/", "app.apk">>
LegacyProductDexPath == <<"/system", "/product/", "app.apk">>
SystemDexPath == <<"/system", "app.apk">>
MixedDexPath == <<"/vendor/", Colon, "/product/">>

Init ==
  /\ initialized_ = FALSE
  /\ namespaces_ = <<>>
  /\ libs = FullLibraries
  /\ exported = ExportedNames
  /\ loaded = {}
  /\ last = NoCall
  /\ anonymous_initialized = FALSE
  /\ g_namespaces_mutex = NoThread
  /\ threads = [t \in Threads |-> NotCalling]

DoInitialize == \E fail_at \in 0..Len(PreloadNames) : Initialize(fail_at)

DoCreate ==
  \E class_loader \in Loaders,
     dex_path \in {NullString, JString(VendorDexPath), JString(MixedDexPath)},
     java_library_path \in {NullString, JString(AppLibraryPath)},
     o \in Oracles :
    Create(class_loader, 30, FALSE, dex_path, java_library_path, NullString, o)

DoFind == \E class_loader \in Loaders : Find(class_loader)

DoFindParent == \E class_loader \in Loaders : FindParent(class_loader)

Next == DoInitialize \/ DoCreate \/ DoFind \/ DoFindParent \/ Return

Spec == Init /\ [][Next]_vars

------------------------------------------------------------------------------
(* SpecPolicy: the calls of one class loader, on every device configuration and
   with every combination of the arguments the policy reads.  The permitted path
   is an empty or a non-empty Java string here, and nullptr in Spec. *)

SdkVersions == {23, 29, 30}

PolicyDexPaths ==
  {NullString, JString(SystemDexPath), JString(VendorDexPath), JString(ProductDexPath),
   JString(LegacyProductDexPath), JString(MixedDexPath)}

InitPolicy ==
  /\ initialized_ = FALSE
  /\ namespaces_ = <<>>
  /\ libs \in LibraryConfigs
  /\ exported \in SUBSET ExportedNames
  /\ loaded = {}
  /\ last = NoCall
  /\ anonymous_initialized = FALSE
  /\ g_namespaces_mutex = NoThread
  /\ threads = [t \in Threads |-> NotCalling]

DoCreatePolicy ==
  \E target_sdk_version \in SdkVersions, is_shared \in BOOLEAN,
     dex_path \in PolicyDexPaths,
     java_library_path \in {NullString, JString(AppLibraryPath)},
     java_permitted_path \in {JString(<<>>), JString(AppPermittedPath)},
     fail \in FailPoints :
    Create(1, target_sdk_version, is_shared, dex_path, java_library_path,
           java_permitted_path, [fail |-> fail, nb_path |-> FALSE, nb_init |-> FALSE])

NextPolicy == DoCreatePolicy \/ Return

SpecPolicy == InitPolicy /\ [][NextPolicy]_vars

------------------------------------------------------------------------------
(* SpecClassify: the classifier on every dex path of at most MaxDexLen tokens *)

DexTokens == {"/vendor/", "/product/", "/system", Colon, "app.apk"}

DexPaths ==
  {NullString} \cup
  { JString(s) : s \in UNION { [1..n -> DexTokens] : n \in 0..MaxDexLen } }

DoClassify == \E dex_path \in DexPaths : Classify(dex_path)

NextClassify == DoClassify \/ Return

SpecClassify == Init /\ [][NextClassify]_vars

------------------------------------------------------------------------------
(* SpecThreads: two threads call Create, each statement of Create a step of its
   own.  The caller takes g_namespaces_mutex before it calls Create and releases it
   after Create has returned.  The calls are for ordinary (not unbundled) apps. *)

\* The mutex that lets every thread in.
MutexFree_Always == TRUE

MutexFree == g_namespaces_mutex = NoThread

\* No thread has hit the LOG_ALWAYS_FATAL of the duplicate check.
NoAbort == \A t \in Threads : threads[t].pc # "aborted"

At(t, pc) == NoAbort /\ threads[t].pc = pc

Goto(t, pc) == threads' = [threads EXCEPT ![t].pc = pc]

\* The caller arrives with its arguments and waits for the mutex.
CallCreate(t, class_loader, java_library_path) ==
  /\ At(t, "idle")
  /\ threads' = [threads EXCEPT ![t] = [pc |-> "lock", class_loader |-> class_loader,
                                        library_path |-> DeclaredLibraryPath(java_library_path),
                                        app_ns |-> NoNamespace]]
  /\ UNCHANGED <<initialized_, namespaces_, libs, exported, loaded, last>>
  /\ UNCHANGED <<anonymous_initialized, g_namespaces_mutex>>

Lock(t) ==
  /\ At(t, "lock")
  /\ MutexFree
  /\ g_namespaces_mutex' = t
  /\ Goto(t, "test_initialized")
  /\ UNCHANGED <<initialized_, namespaces_, libs, exported, loaded, last>>
  /\ UNCHANGED anonymous_initialized

\* !library_path.empty() && !initialized_
TestInitialized(t) ==
  /\ At(t, "test_initialized")
  /\ Goto(t, IF threads[t].library_path # <<>> /\ ~initialized_ THEN "init" ELSE "find")
  /\ UNCHANGED <<initialized_, namespaces_, libs, exported, loaded, last>>
  /\ UNCHANGED <<anonymous_initialized, g_namespaces_mutex>>

\* !InitPublicNamespace(library_path.c_str(), error_msg): return nullptr
RunInit(t, o) ==
  /\ At(t, "init")
  /\ LET init == InitPublicNamespace(threads[t].library_path, o)
     IN  /\ initialized_' = init.initialized
         /\ anonymous_initialized' = (anonymous_initialized \/ AnonymousInitSucceeded(init.log))
         /\ Goto(t, IF init.ret THEN "find" ELSE "unlock")
  /\ UNCHANGED <<namespaces_, libs, exported, loaded, last, g_namespaces_mutex>>

\* The duplicate check.
TestFound(t) ==
  /\ At(t, "find")
  /\ Goto(t, IF AlreadyRegistered(threads[t].class_loader) THEN "aborted" ELSE "create")
  /\ UNCHANGED <<initialized_, namespaces_, libs, exported, loaded, last>>
  /\ UNCHANGED <<anonymous_initialized, g_namespaces_mutex>>

\* The parent lookup, NativeLoaderNamespace::Create and the links.
CreateAndLink(t, o) ==
  /\ At(t, "create")
  /\ LET parent_ns == FindParentNamespaceByClassLoader(threads[t].class_loader)
         create == CreateStep(NamespaceName(FALSE), threads[t].library_path,
                              kWhitelistedDirectories, parent_ns, FALSE, FALSE, o)
         links == Taken(LinkSteps(FALSE, o))
         ok == create.ok /\ \A i \in 1..Len(links) : links[i].ok
     IN  threads' = [threads EXCEPT ![t].pc = IF ok THEN "push_back" ELSE "unlock",
                                    ![t].app_ns = [name |-> create.name,
                                                   parent |-> create.parent]]
  /\ UNCHANGED <<initialized_, namespaces_, libs, exported, loaded, last>>
  /\ UNCHANGED <<anonymous_initialized, g_namespaces_mutex>>

PushBack(t) ==
  /\ At(t, "push_back")
  /\ namespaces_' = Registered(threads[t].class_loader, threads[t].app_ns, TRUE)
  /\ Goto(t, "unlock")
  /\ UNCHANGED <<initialized_, libs, exported, loaded, last>>
  /\ UNCHANGED <<anonymous_initialized, g_namespaces_mutex>>

\* Create has returned; the caller releases the mutex.
Unlock(t) ==
  /\ At(t, "unlock")
  /\ g_namespaces_mutex' = NoThread
  /\ threads' = [threads EXCEPT ![t] = NotCalling]
  /\ UNCHANGED <<initialized_, namespaces_, libs, exported, loaded, last>>
  /\ UNCHANGED anonymous_initialized

InitOracles ==
  [fail : {"none", "android_init_anonymous_namespace", "NativeBridgeInitAnonymousNamespace"},
   nb_path : {FALSE}, nb_init : BOOLEAN]

LinkOracles ==
  [fail : {"none", "Create", "platform", kRuntimeNamespaceName, kVendorNamespaceName},
   nb_path : {FALSE}, nb_init : {FALSE}]

DoCallCreate ==
  \E t \in Threads, class_loader \in Loaders,
     java_library_path \in {NullString, JString(AppLibraryPath)} :
    CallCreate(t, class_loader, java_library_path)

DoLock == \E t \in Threads : Lock(t)

DoTestInitialized == \E t \in Threads : TestInitialized(t)

DoRunInit == \E t \in Threads, o \in InitOracles : RunInit(t, o)

DoTestFound == \E t \in Threads : TestFound(t)

DoCreateAndLink == \E t \in Threads, o \in LinkOracles : CreateAndLink(t, o)

DoPushBack == \E t \in Threads : PushBack(t)

DoUnlock == \E t \in Threads : Unlock(t)

NextThreads ==
  \/ DoCallCreate \/ DoLock \/ DoTestInitialized \/ DoRunInit
  \/ DoTestFound \/ DoCreateAndLink \/ DoPushBack \/ DoUnlock

SpecThreads == Init /\ [][NextThreads]_vars

------------------------------------------------------------------------------
(* Properties *)

\* The positions in the log of the current call where primitive op was aimed at target.
Steps(op, target) ==
  { i \in 1..Len(last.log) : last.log[i].op = op /\ last.log[i].target = target }

Step(op, target) == last.log[CHOOSE i \in Steps(op, target) : TRUE]

IsRegistered(class_loader) ==
  \E i \in 1..Len(namespaces_) : namespaces_[i].loader = class_loader

\* C1: a create_context_scope call that returns failure leaves the Context Registry
\* exactly as it was before the call: no entry is committed.
C1_FailedCreateKeepsRegistry ==
  [][(last'.op = "Create" /\ last'.result = "error") => namespaces_' = namespaces_]_vars

\* A call failed at its last step, the vendor link, in a process that already has
\* a registered class loader.
C1_Witness ==
  /\ last.op = "Create"
  /\ last.result = "error"
  /\ Steps("Link", kVendorNamespaceName) # {}
  /\ ~Step("Link", kVendorNamespaceName).ok
  /\ Len(namespaces_) = 1
  /\ ~IsRegistered(last.args.class_loader)

\* C2 as stated: a create_context_scope call for a Context that is already
\* registered ends in the fatal duplicate-registration outcome, having created no
\* scope, linked nothing and added no entry.
C2_DuplicateIsAlwaysFatalDuplicate ==
  [][(last'.op = "Create" /\ IsRegistered(last'.args.class_loader))
       => /\ last'.result = "fatal_duplicate"
          /\ \A i \in 1..Len(last'.log) : last'.log[i].op \notin {"Create", "Link"}
          /\ namespaces_' = namespaces_]_vars

\* C2 amended: a create_context_scope call for a Context that is already registered
\* creates no scope, links nothing, adds no entry and returns no handle.  It ends in
\* the fatal duplicate-registration outcome, unless its provenance matches both
\* partition patterns (fatal classification) or it runs bootstrap and the
\* initialization of the anonymous scope fails (that error is returned): both are
\* decided before the duplicate check.
C2_DuplicateNeverCreates ==
  [][(last'.op = "Create" /\ IsRegistered(last'.args.class_loader))
       => /\ \A i \in 1..Len(last'.log) : last'.log[i].op \notin {"Create", "Link"}
          /\ namespaces_' = namespaces_
          /\ last'.ret = 0
          /\ last'.result =
               IF ~IsNull(last'.args.dex_path)
                    /\ MatchesVendorDexPath(Chars(last'.args.dex_path))
                    /\ MatchesProductDexPath(Chars(last'.args.dex_path))
                 THEN "fatal_origin"
               ELSE IF \E i \in 1..Len(last'.log) : ~last'.log[i].ok
                 THEN "error"
               ELSE "fatal_duplicate"]_vars

\* The second call for a registered class loader has aborted the process.
C2_Witness ==
  /\ last.op = "Create"
  /\ last.result = "fatal_duplicate"
  /\ IsRegistered(last.args.class_loader)

\* The proper ancestors of a class loader, by the host's parent accessor.
RECURSIVE Ancestors(_)
Ancestors(class_loader) ==
  IF GetParentClassLoader(class_loader) = NoLoader THEN {}
  ELSE {GetParentClassLoader(class_loader)}
         \cup Ancestors(GetParentClassLoader(class_loader))

RegisteredAncestors(class_loader) ==
  { a \in Ancestors(class_loader) : IsRegistered(a) }

\* C7: find_parent_scope(context) returns the handle of the nearest proper ancestor
\* that has a Registry Entry (every other registered ancestor is an ancestor of that
\* one), never the context's own entry, and returns none exactly when no proper
\* ancestor has an entry.
C7_FindParentIsNearestRegisteredAncestor ==
  last.op = "FindParentNamespaceByClassLoader" =>
    LET c == last.args.class_loader
    IN  IF RegisteredAncestors(c) = {}
          THEN last.ret = 0
          ELSE /\ last.ret \in 1..Len(namespaces_)
               /\ namespaces_[last.ret].loader \in RegisteredAncestors(c)
               /\ \A a \in RegisteredAncestors(c) \ {namespaces_[last.ret].loader} :
                    a \in Ancestors(namespaces_[last.ret].loader)
               /\ \A i \in 1..Len(namespaces_) :
                    namespaces_[i].loader = namespaces_[last.ret].loader => i = last.ret

\* The class loader and its second ancestor are registered, its parent is not: the
\* walk passes the parent and returns the second ancestor's namespace.
C7_Witness ==
  /\ last.op = "FindParentNamespaceByClassLoader"
  /\ last.args.class_loader = 3
  /\ IsRegistered(3)
  /\ ~IsRegistered(2)
  /\ IsRegistered(1)
  /\ last.ret # 0
  /\ namespaces_[last.ret].loader = 1

\* Every default public library has been loaded: an Initialize has run to its end.
Preloaded == \A i \in 1..Len(PreloadNames) : PreloadNames[i] \in loaded

\* C8 as stated: after one preload_defaults, a second one makes no preload attempt
\* and changes no state.
C8_SecondInitializeIsNoOp ==
  [][(last'.op = "Initialize" /\ Preloaded)
       => /\ last'.log = <<>>
          /\ UNCHANGED <<initialized_, namespaces_, loaded>>]_vars

\* C8 amended: a preload_defaults made once the bootstrap flag is set makes no
\* preload attempt and changes no state; a second preload_defaults made while the
\* flag is still unset attempts every default public library again, and changes
\* neither the flag nor the Registry nor the set of loaded libraries.
C8_InitializeAfterBootstrapIsNoOp ==
  [][(last'.op = "Initialize" /\ (initialized_ \/ Preloaded))
       => /\ UNCHANGED <<initialized_, namespaces_, libs, exported>>
          /\ IF initialized_
               THEN last'.log = <<>> /\ last'.result = "ok" /\ loaded' = loaded
               ELSE /\ Len(last'.log) >= 1
                    /\ \A i \in 1..Len(last'.log) :
                         last'.log[i].op = "dlopen" /\ last'.log[i].libs = PreloadNames[i]
                    /\ last'.result = "ok" => loaded' = loaded]_vars

\* An Initialize that ran after a first Initialize and after bootstrap: nothing
\* was attempted.
C8_Witness ==
  /\ last.op = "Initialize"
  /\ initialized_
  /\ Preloaded
  /\ last.log = <<>>

------------------------------------------------------------------------------
(* Properties of the classification and the policy *)

MatchesVendor(dex_path) == ~IsNull(dex_path) /\ MatchesVendorDexPath(Chars(dex_path))
MatchesProduct(dex_path) == ~IsNull(dex_path) /\ MatchesProductDexPath(Chars(dex_path))
VendorProvenance(dex_path) == MatchesVendor(dex_path) /\ ~MatchesProduct(dex_path)
ProductProvenance(dex_path) == MatchesProduct(dex_path) /\ ~MatchesVendor(dex_path)

\* C3: the classifier gives Default for an absent provenance, Vendor when only the
\* vendor pattern matches, Product when only the product pattern matches (direct or
\* legacy), Default when neither matches, and the fatal outcome, with no OriginClass
\* returned, when both match.
C3_ClassifyTable ==
  last.op = "GetApkOriginFromDexPath" =>
    LET d == last.args.dex_path
    IN  /\ IsNull(d) => last.origin = APK_ORIGIN_DEFAULT
        /\ VendorProvenance(d) => last.origin = APK_ORIGIN_VENDOR
        /\ ProductProvenance(d) => last.origin = APK_ORIGIN_PRODUCT
        /\ (~MatchesVendor(d) /\ ~MatchesProduct(d)) => last.origin = APK_ORIGIN_DEFAULT
        /\ (MatchesVendor(d) /\ MatchesProduct(d)) =>
             /\ last.result = "fatal_origin"
             /\ last.origin \notin {APK_ORIGIN_DEFAULT, APK_ORIGIN_VENDOR, APK_ORIGIN_PRODUCT}
        /\ ~(MatchesVendor(d) /\ MatchesProduct(d)) => last.result = "ok"

\* A dex path with a product entry and a vendor entry has been classified: the
\* process aborts.
C3_Witness ==
  /\ last.op = "GetApkOriginFromDexPath"
  /\ last.args.dex_path = JString(<<"/product/", Colon, "/vendor/">>)
  /\ last.result = "fatal_origin"

\* The platform-exposed list of an ordinary app.
OrdinaryExposed ==
  IF libs.extended = <<>> THEN libs.default ELSE Joined(libs.default, libs.extended)

\* C4: for a shared context with vendor provenance, at any target API level, the
\* LLNDK list is not part of the list exposed by the platform link (the list is the
\* default public list, widened by the extended list only; a name of the LLNDK list
\* is exposed only if it is a public name as well), and the search and permitted
\* paths are the declared ones, without the vendor library directory.
C4_SharedVendorNotWidened ==
  (last.op = "Create" /\ last.args.is_shared /\ VendorProvenance(last.args.dex_path)) =>
    /\ Steps("Create", "app") # {} =>
         /\ Step("Create", "app").path = DeclaredLibraryPath(last.args.java_library_path)
         /\ Step("Create", "app").permitted =
              DeclaredPermittedPath(last.args.java_permitted_path)
         /\ kVendorLibPath \notin Entries(Step("Create", "app").path)
         /\ kVendorLibPath \notin Entries(Step("Create", "app").permitted)
    /\ Steps("Link", "platform") # {} =>
         /\ Step("Link", "platform").libs = OrdinaryExposed
         /\ \A n \in Entries(libs.llndk) \ (Entries(libs.default) \cup Entries(libs.extended)) :
              n \notin Entries(Step("Link", "platform").libs)

\* A shared vendor app above the product threshold has been linked to the platform.
C4_Witness ==
  /\ last.op = "Create"
  /\ last.args.is_shared
  /\ VendorProvenance(last.args.dex_path)
  /\ last.args.target_sdk_version = 30
  /\ Steps("Link", "platform") # {}
  /\ last.result = "ok"

\* C5: for a non-shared context with vendor provenance, at any target API level, the
\* search path and the permitted path used to create the scope include the vendor
\* library directory, and the list exposed by the platform link includes the LLNDK
\* list.
C5_UnbundledVendorWidened ==
  (last.op = "Create" /\ ~last.args.is_shared /\ VendorProvenance(last.args.dex_path)) =>
    /\ Steps("Create", "app") # {} =>
         /\ kVendorLibPath \in Entries(Step("Create", "app").path)
         /\ kVendorLibPath \in Entries(Step("Create", "app").permitted)
    /\ Steps("Link", "platform") # {} =>
         Entries(libs.llndk) \subseteq Entries(Step("Link", "platform").libs)

\* A non-shared vendor app with an old target API level has been linked to the platform.
C5_Witness ==
  /\ last.op = "Create"
  /\ ~last.args.is_shared
  /\ VendorProvenance(last.args.dex_path)
  /\ last.args.target_sdk_version = 23
  /\ Steps("Link", "platform") # {}
  /\ last.result = "ok"

\* C6: for a non-shared context with product provenance, a target API level of 29 or
\* less makes it an ordinary app (declared search path unchanged, permitted path
\* without the product directories, ordinary label, default public list widened by a
\* non-empty extended list), and a level above 29 makes it an unbundled partition app
\* (product directories appended to both paths, partition label, default public list
\* plus the LLNDK list).
C6_ProductThreshold ==
  (last.op = "Create" /\ ~last.args.is_shared /\ ProductProvenance(last.args.dex_path)) =>
    LET declared == DeclaredLibraryPath(last.args.java_library_path)
        permitted == DeclaredPermittedPath(last.args.java_permitted_path)
    IN  IF last.args.target_sdk_version <= 29
          THEN /\ Steps("Create", "app") # {} =>
                    /\ Step("Create", "app").path = declared
                    /\ Step("Create", "app").permitted = permitted
                    /\ Entries(kProductLibPath) \cap Entries(Step("Create", "app").permitted) = {}
                    /\ Step("Create", "app").name = kClassloaderNamespaceName
               /\ Steps("Link", "platform") # {} =>
                    Step("Link", "platform").libs = OrdinaryExposed
          ELSE /\ Steps("Create", "app") # {} =>
                    /\ Step("Create", "app").path = Joined(declared, kProductLibPath)
                    /\ Step("Create", "app").permitted = Joined(permitted, kProductLibPath)
                    /\ Step("Create", "app").name = kVendorClassloaderNamespaceName
               /\ Steps("Link", "platform") # {} =>
                    Step("Link", "platform").libs = Joined(libs.default, libs.llndk)

\* A non-shared product app at the threshold itself has been linked to the platform
\* on a device with an extended public list.
C6_Witness ==
  /\ last.op = "Create"
  /\ ~last.args.is_shared
  /\ ProductProvenance(last.args.dex_path)
  /\ last.args.target_sdk_version = 29
  /\ libs.extended # <<>>
  /\ Steps("Link", "platform") # {}
  /\ last.result = "ok"

------------------------------------------------------------------------------
(* Properties of the links *)

\* The call is for an unbundled partition app, in the words of the specification.
UnbundledPartitionApp ==
  /\ \/ VendorProvenance(last.args.dex_path)
     \/ ProductProvenance(last.args.dex_path) /\ last.args.target_sdk_version > 29
  /\ ~last.args.is_shared

\* The list each link exposes, from the device lists and the arguments alone.
ExposedBy(target) ==
  CASE target = "platform" ->
         IF UnbundledPartitionApp THEN Joined(libs.default, libs.llndk) ELSE OrdinaryExposed
    [] target = kRuntimeNamespaceName -> libs.runtime
    [] target = kVndkNamespaceName -> libs.vndksp
    [] target = kVendorNamespaceName -> libs.vendor

\* C9: an absent exported scope (runtime, vendor-sp, vendor) never makes
\* create_context_scope return an error: no link to an absent runtime or vendor-sp
\* scope is attempted, a call returns an error only when the last primitive it
\* invoked reported failure, and the list every link of the call exposes is the one
\* given by the device lists and the arguments, whichever scopes are present.
C9_AbsentScopeIsNotAnError ==
  last.op = "Create" =>
    /\ \A i \in 1..Len(last.log) :
         (last.log[i].op = "Link" /\ ~last.log[i].present)
           => last.log[i].target = kVendorNamespaceName
    /\ \A i \in 1..Len(last.log) :
         last.log[i].op = "Link" =>
           /\ last.log[i].present =
                (last.log[i].target = "platform" \/ last.log[i].target \in exported)
           /\ last.log[i].libs = ExposedBy(last.log[i].target)
    /\ \A i \in 1..(Len(last.log) - 1) : last.log[i].ok
    /\ last.result = "error" => (last.log # <<>> /\ ~last.log[Len(last.log)].ok)
    /\ (last.result = "ok" /\ UnbundledPartitionApp /\ libs.vndksp # <<>>
          /\ kVndkNamespaceName \in exported)
         => Steps("Link", kVndkNamespaceName) # {}
    /\ (last.result = "ok" /\ kRuntimeNamespaceName \in exported)
         => Steps("Link", kRuntimeNamespaceName) # {}

\* An unbundled vendor app was created in a process with no exported scope at all:
\* the call succeeded with the platform link and the vendor link to a nil scope.
C9_Witness ==
  /\ last.op = "Create"
  /\ last.result = "ok"
  /\ exported = {}
  /\ libs.vendor # <<>>
  /\ libs.vndksp # <<>>
  /\ UnbundledPartitionApp
  /\ Steps("Link", kRuntimeNamespaceName) = {}
  /\ Steps("Link", kVndkNamespaceName) = {}
  /\ Steps("Link", kVendorNamespaceName) # {}
  /\ ~Step("Link", kVendorNamespaceName).present

\* The call got past the scope creation, the platform link and the runtime and
\* vendor-sp links it made.
ReachedVendorLink ==
  /\ last.op = "Create"
  /\ Steps("Create", "app") # {}
  /\ Step("Create", "app").ok
  /\ Steps("Link", "platform") # {}
  /\ Step("Link", "platform").ok
  /\ \A i \in 1..Len(last.log) :
       last.log[i].target \in {kRuntimeNamespaceName, kVndkNamespaceName} => last.log[i].ok

\* C10 as stated: every call that got past the creation and the earlier links
\* attempts the link to the vendor scope with the vendor-exposed list, whatever that
\* list holds.
C10_VendorLinkAlwaysAttempted ==
  ReachedVendorLink =>
    /\ Steps("Link", kVendorNamespaceName) # {}
    /\ Step("Link", kVendorNamespaceName).libs = libs.vendor

\* C10 amended: every call that got past the creation and the earlier links attempts
\* the link to the vendor scope with the vendor-exposed list when that list is not
\* empty, also when no vendor scope is configured (the handle is nil); when the list
\* is empty no vendor link is attempted and the call succeeds.
C10_VendorLinkAttemptedForNonEmptyList ==
  ReachedVendorLink =>
    IF libs.vendor # <<>>
      THEN /\ Steps("Link", kVendorNamespaceName) # {}
           /\ Step("Link", kVendorNamespaceName).libs = libs.vendor
           /\ Step("Link", kVendorNamespaceName).present = (kVendorNamespaceName \in exported)
      ELSE /\ Steps("Link", kVendorNamespaceName) = {}
           /\ last.result = "ok"

\* The vendor link was attempted in a process without a vendor scope.
C10_Witness ==
  /\ ReachedVendorLink
  /\ kVendorNamespaceName \notin exported
  /\ Steps("Link", kVendorNamespaceName) # {}
  /\ ~Step("Link", kVendorNamespaceName).present
  /\ Step("Link", kVendorNamespaceName).libs = VendorPublicLibraries

\* The call in progress invoked android_init_anonymous_namespace.
AttemptsAnonymousInit(call) ==
  \E i \in 1..Len(call.log) : call.log[i].op = "android_init_anonymous_namespace"

\* C11: bootstrap runs exactly once per process: over any sequence of
\* create_context_scope calls, the initialization of the anonymous scope is attempted
\* only by a call whose declared_search_path is non-empty while bootstrap has not yet
\* succeeded, and once android_init_anonymous_namespace has succeeded it is never
\* invoked again in that process.
C11_AnonymousInitNeverRepeated ==
  [][(last'.op = "Create" /\ AttemptsAnonymousInit(last'))
       => /\ ~IsNull(last'.args.java_library_path)
          /\ Chars(last'.args.java_library_path) # <<>>
          /\ ~initialized_
          /\ ~anonymous_initialized]_vars

\* Create's library_path, as declared by the caller of the call in progress.
LastLibraryPath == DeclaredLibraryPath(last.args.java_library_path)

\* The call in progress reached NativeLoaderNamespace::Create.
ReachedCreation == last.op = "Create" /\ Steps("Create", "app") # {}

\* C12 as stated: a create_context_scope call reaches the scope creation step, and a
\* Registry Entry exists, only if the bootstrap flag is true at that point; a call
\* with an empty declared_search_path made before bootstrap creates no scope.
C12_CreationOnlyAfterBootstrap ==
  /\ ReachedCreation => initialized_
  /\ namespaces_ # <<>> => initialized_

\* C12 amended: a create_context_scope call with a non-empty declared_search_path
\* reaches the scope creation step only with the bootstrap flag true (set before the
\* call or by the call's own bootstrap); a call with an empty declared_search_path
\* attempts no initialization of the anonymous scope and reaches the creation step
\* whatever the flag is.
C12_CreationAfterBootstrapWhenPathGiven ==
  ReachedCreation =>
    IF LastLibraryPath # <<>>
      THEN initialized_
      ELSE /\ Steps("android_init_anonymous_namespace", "anonymous") = {}
           /\ Steps("NativeBridgeInitAnonymousNamespace", "anonymous") = {}

\* A call with a non-empty library path ran the bootstrap itself, native bridge
\* included, and went on to create its namespace.
C12_Witness ==
  /\ ReachedCreation
  /\ LastLibraryPath # <<>>
  /\ Steps("android_init_anonymous_namespace", "anonymous") # {}
  /\ Steps("NativeBridgeInitAnonymousNamespace", "anonymous") # {}
  /\ initialized_

\* The threads between taking and releasing the mutex.
InsideCreate == { t \in Threads : threads[t].pc \notin {"idle", "lock"} }

\* C13: all Registry reads and writes, the bootstrap and the scope create/link calls
\* of create_context_scope are mutually exclusive within a process: at most one
\* thread is inside Create and it holds the mutex, so two concurrent calls for the
\* same Context never both pass the duplicate check and both insert an entry, and
\* two concurrent calls are never both running the anonymous-scope initialization.
C13_CreateCallsAreMutuallyExclusive ==
  /\ \A t, u \in InsideCreate : t = u
  /\ \A t \in InsideCreate : g_namespaces_mutex = t
  /\ \A i, j \in 1..Len(namespaces_) : namespaces_[i].loader = namespaces_[j].loader => i = j
  /\ \A t, u \in Threads : threads[t].pc = "init" /\ threads[u].pc = "init" => t = u
  /\ \A t, u \in Threads :
       (threads[t].pc \in {"create", "push_back"} /\ threads[u].pc \in {"create", "push_back"}
          /\ threads[t].class_loader = threads[u].class_loader) => t = u

\* Two calls for the same class loader, both with a library path, before any
\* bootstrap: one is running InitPublicNamespace, the other waits for the mutex.
C13_Witness ==
  \E t, u \in Threads :
    /\ threads[t].pc = "init"
    /\ threads[u].pc = "lock"
    /\ threads[t].class_loader = threads[u].class_loader
    /\ threads[u].library_path # <<>>
    /\ ~initialized_

\* The place of a primitive in the order of C14; 0 for the bootstrap primitives.
StepRank(step) ==
  CASE step.op = "Create" -> 1
    [] step.op = "Link" /\ step.target = "platform" -> 2
    [] step.op = "Link" /\ step.target = kRuntimeNamespaceName -> 3
    [] step.op = "Link" /\ step.target = kVndkNamespaceName -> 4
    [] step.op = "Link" /\ step.target = kVendorNamespaceName -> 5
    [] OTHER -> 0

\* C14: within one create_context_scope call the primitive steps happen in the
\* order scope creation, platform link, runtime link (if the runtime scope is
\* present), vendor-sp link, vendor link, Registry insertion; each step is attempted
\* only after every earlier attempted step succeeded; the platform link is attempted
\* for every context whose scope was created; the entry is inserted only after every
\* attempted step succeeded.
C14_StepsInOrder ==
  [][last'.op = "Create" =>
       LET log == last'.log
           ranked == { i \in 1..Len(log) : StepRank(log[i]) > 0 }
       IN  /\ \A i, j \in ranked : i < j => StepRank(log[i]) < StepRank(log[j])
           /\ \A i \in 1..Len(log), j \in ranked : i < j => log[i].ok
           /\ \A i \in ranked :
                (StepRank(log[i]) = 1 /\ log[i].ok)
                  => \E j \in ranked : j > i /\ StepRank(log[j]) = 2
           /\ \A i \in ranked :
                (StepRank(log[i]) = 2 /\ log[i].ok)
                  => ((\E j \in ranked : StepRank(log[j]) = 3)
                        <=> kRuntimeNamespaceName \in exported)
           /\ \A i \in ranked : StepRank(log[i]) > 1 => \E j \in ranked : StepRank(log[j]) = 1
           /\ IF last'.result = "ok"
                THEN /\ \A i \in 1..Len(log) : log[i].ok
                     /\ \E i \in ranked : StepRank(log[i]) = 2
                     /\ Len(namespaces_') = Len(namespaces_) + 1
                     /\ namespaces_'[Len(namespaces_')].loader = last'.args.class_loader
                     /\ last'.ret = Len(namespaces_')
                ELSE namespaces_' = namespaces_]_vars

\* A call made all five steps and registered its class loader.
C14_Witness ==
  /\ last.op = "Create"
  /\ last.result = "ok"
  /\ { StepRank(last.log[i]) : i \in 1..Len(last.log) } = 0..5
  /\ Steps("android_init_anonymous_namespace", "anonymous") # {}
  /\ IsRegistered(last.args.class_loader)

\* C15: for every create_context_scope call classified as an unbundled partition app
\* (vendor provenance, or product provenance with a target API level above the
\* threshold, and not shared) the list exposed by the platform link is exactly the
\* default public list followed by the LLNDK list, and holds no name of the extended
\* list; for every other call it is exactly the default public list, followed by the
\* extended list when that is not empty, and holds no name the LLNDK list adds.
C15_PlatformExposedSet ==
  (last.op = "Create" /\ Steps("Link", "platform") # {}) =>
    LET system_exposed == Step("Link", "platform").libs
    IN  IF UnbundledPartitionApp
          THEN /\ system_exposed = Joined(libs.default, libs.llndk)
               /\ Entries(system_exposed) = Entries(libs.default) \cup Entries(libs.llndk)
               /\ Entries(system_exposed) \cap Entries(libs.extended) = {}
          ELSE /\ system_exposed = OrdinaryExposed
               /\ Entries(system_exposed) = Entries(libs.default) \cup Entries(libs.extended)
               /\ Entries(system_exposed) \cap (Entries(libs.llndk) \ Entries(libs.default)) = {}

\* A non-shared product app above the threshold was linked to the platform on a
\* device that has extended public libraries.
C15_Witness ==
  /\ last.op = "Create"
  /\ ProductProvenance(last.args.dex_path)
  /\ last.args.target_sdk_version = 30
  /\ ~last.args.is_shared
  /\ libs.extended = ExtendedPublicLibraries
  /\ Steps("Link", "platform") # {}
  /\ Step("Link", "platform").ok

\* C16: the engine never retries and never continues after a failure: in one
\* create_context_scope call each primitive operation (anonymous-scope init, scope
\* create, each link) is invoked at most once, the first failing primitive is the
\* last primitive of the call, and the call then returns failure (no handle) with an
\* error message set.
C16_NoRetryNoContinue ==
  last.op = "Create" =>
    /\ \A i, j \in 1..Len(last.log) :
         (last.log[i].op = last.log[j].op /\ last.log[i].target = last.log[j].target)
           => i = j
    /\ \A i \in 1..Len(last.log) : ~last.log[i].ok => i = Len(last.log)
    /\ (\E i \in 1..Len(last.log) : ~last.log[i].ok)
         => /\ last.result = "error"
            /\ last.ret = 0
            /\ last.error_msg # ""
    /\ last.result = "error" => \E i \in 1..Len(last.log) : ~last.log[i].ok

\* A call ran both bootstrap primitives, created its scope, made every link and
\* failed at the last one, the vendor link.
C16_Witness ==
  /\ last.op = "Create"
  /\ Steps("NativeBridgeInitAnonymousNamespace", "anonymous") # {}
  /\ Steps("Link", kVndkNamespaceName) # {}
  /\ Steps("Link", kVendorNamespaceName) # {}
  /\ ~Step("Link", kVendorNamespaceName).ok
  /\ last.result = "error"
  /\ last.error_msg = "dlerror"

\* C17: a link to the vendor-sp exported scope is made only for a context classified
\* as an unbundled partition app, only when the vendor-sp list is not empty and only
\* when the vendor-sp scope is present, and it exposes the vendor-sp list; for an
\* ordinary (bundled or shared) context no link to the vendor-sp scope is made, in
\* any sequence of calls.
C17_VndkLinkOnlyForUnbundled ==
  (last.op = "Create" /\ Steps("Link", kVndkNamespaceName) # {}) =>
    /\ UnbundledPartitionApp
    /\ libs.vndksp # <<>>
    /\ kVndkNamespaceName \in exported
    /\ Step("Link", kVndkNamespaceName).present
    /\ Step("Link", kVndkNamespaceName).libs = libs.vndksp

\* A non-shared product app above the threshold was linked to the vendor-sp scope
\* and registered.
C17_Witness ==
  /\ last.op = "Create"
  /\ ~last.args.is_shared
  /\ ProductProvenance(last.args.dex_path)
  /\ last.args.target_sdk_version = 30
  /\ Steps("Link", kVndkNamespaceName) # {}
  /\ Step("Link", kVndkNamespaceName).ok
  /\ last.result = "ok"

\* C18: in every reachable state the Registry holds at most one entry per Context,
\* and entries are only ever appended: every step keeps the entries it finds, in
\* their places, so once find(context) returns a handle every later find(context)
\* returns the same handle, whatever calls happen in between.
C18_RegistryAppendOnly ==
  [][/\ \A i, j \in 1..Len(namespaces_') :
          namespaces_'[i].loader = namespaces_'[j].loader => i = j
     /\ Len(namespaces_') \in {Len(namespaces_), Len(namespaces_) + 1}
     /\ \A i \in 1..Len(namespaces_) : namespaces_'[i] = namespaces_[i]
     /\ \A c \in Loaders :
          FindNamespaceByClassLoader(c) # 0
            => FindNamespaceByClassLoader(c)' = FindNamespaceByClassLoader(c)]_vars

\* find returns the first handle for the class loader registered first, after two
\* more class loaders were registered, in a process where a call failed in the
\* native bridge's part of the bootstrap.
C18_Witness ==
  /\ last.op = "FindNamespaceByClassLoader"
  /\ Len(namespaces_) = 3
  /\ last.args.class_loader = 2
  /\ namespaces_[1].loader = 2
  /\ last.ret = 1
  /\ anonymous_initialized
  /\ ~initialized_

\* The call failed in one of the two bootstrap primitives.
BootstrapFailed(call) ==
  /\ call.op = "Create"
  /\ \E i \in 1..Len(call.log) :
       /\ call.log[i].op \in {"android_init_anonymous_namespace",
                              "NativeBridgeInitAnonymousNamespace"}
       /\ ~call.log[i].ok

\* C19: the bootstrap flag is set at most once: observed between operations it
\* starts false, changes only from false to true and once true stays true; a
\* create_context_scope call whose bootstrap fails (also when the alternate-loader
\* initialization fails after the primary one succeeded) leaves the flag false.
C19_FlagSetAtMostOnce ==
  /\ ~initialized_
  /\ [][/\ initialized_ => initialized_'
        /\ BootstrapFailed(last') => (~initialized_ /\ ~initialized_')
        /\ (~initialized_ /\ initialized_')
             => /\ last'.op = "Create"
                /\ AttemptsAnonymousInit(last')
                /\ \A i \in 1..Len(last'.log) :
                     last'.log[i].target = "anonymous" => last'.log[i].ok]_vars

\* A call whose primary initialization succeeded and whose alternate-loader
\* initialization failed has returned its error; the flag is false.
C19_Witness ==
  /\ last.op = "Create"
  /\ last.result = "error"
  /\ Steps("android_init_anonymous_namespace", "anonymous") # {}
  /\ Step("android_init_anonymous_namespace", "anonymous").ok
  /\ Steps("NativeBridgeInitAnonymousNamespace", "anonymous") # {}
  /\ ~Step("NativeBridgeInitAnonymousNamespace", "anonymous").ok
  /\ ~initialized_

\* C20: find(context) and find_parent_scope(context) are read-only: for any Registry
\* content and any argument they leave the Registry and the bootstrap flag (and the
\* rest of the process state) unchanged; find returns the handle of the entry whose
\* Context is identical to the argument, or none when there is no such entry.
C20_LookupsAreReadOnly ==
  [][last'.op \in {"FindNamespaceByClassLoader", "FindParentNamespaceByClassLoader"}
       => /\ UNCHANGED <<initialized_, namespaces_, anonymous_initialized>>
          /\ UNCHANGED <<libs, exported, loaded>>
          /\ last'.op = "FindNamespaceByClassLoader" =>
               IF IsRegistered(last'.args.class_loader)
                 THEN /\ last'.ret \in 1..Len(namespaces_)
                      /\ namespaces_[last'.ret].loader = last'.args.class_loader
                 ELSE last'.ret = 0]_vars

\* find returned the second entry, the one of its argument, before the flag was set.
C20_Witness ==
  /\ last.op = "FindNamespaceByClassLoader"
  /\ Len(namespaces_) = 2
  /\ last.ret = 2
  /\ namespaces_[2].loader = last.args.class_loader
  /\ namespaces_[1].loader > last.args.class_loader
  /\ ~initialized_

====
